---- MODULE Spec2Model ----
(***************************************************************************)
(* Model of the two request handlers of the repository:                    *)
(*   - the tweet-improvement handler (src/unnamed/part_001, POST)          *)
(*   - the copy-search handler (src/app/api/copycat/route.ts, POST)        *)
(* Strings are sequences of tokens.  A token is one character of the       *)
(* fence syntax (backtick, the letters of "json" in both cases, blank and       *)
(* newline), or a token that stands for a whole piece of text without      *)
(* fence characters or blanks (a JSON document, a word of prose, a field   *)
(* of a tweet).                                                            *)
(***************************************************************************)
EXTENDS Naturals, Sequences, FiniteSets, TLC

(***************************************************************************)
(* Strings                                                                 *)
(***************************************************************************)
Absent == "<absent>"

WhiteSpace == {" ", "\n"}

IsWs(c) == c \in WhiteSpace

ToLower(c) ==
    CASE c = "J" -> "j"
      [] c = "S" -> "s"
      [] c = "O" -> "o"
      [] c = "N" -> "n"
      [] OTHER -> c

Lower(s) == [i \in 1..Len(s) |-> ToLower(s[i])]

Drop(s, n) == IF n >= Len(s) THEN << >> ELSE SubSeq(s, n + 1, Len(s))

Take(s, n) == IF n >= Len(s) THEN s ELSE SubSeq(s, 1, n)

StartsWith(s, p) == Len(s) >= Len(p) /\ SubSeq(s, 1, Len(p)) = p

EndsWith(s, p) == Len(s) >= Len(p) /\ SubSeq(s, Len(s) - Len(p) + 1, Len(s)) = p

\* Number of leading tokens of s that belong to the set cs (v is the value
\* of s).
LeadRun(s, cs) ==
    CHOOSE n \in {Cardinality({i \in 1..Len(v) : \A j \in 1..i : v[j] \in cs}) : v \in {s}} :
        TRUE

\* Number of trailing tokens of s that belong to the set cs.
TrailRun(s, cs) ==
    CHOOSE n \in {Cardinality({i \in 1..Len(v) : \A j \in i..Len(v) : v[j] \in cs}) :
                      v \in {s}} : TRUE

\* String.prototype.trim
Trim(s) ==
    LET a == Drop(s, LeadRun(s, WhiteSpace))
    IN  Take(a, Len(a) - TrailRun(a, WhiteSpace))

Fence == <<"bq", "bq", "bq">>

FenceJson == <<"bq", "bq", "bq", "j", "s", "o", "n">>

\* first replace of the handler: a leading fence followed by "json" in any
\* letter case, and all whitespace after it, is removed
ReplaceOpenJson(s) ==
    IF StartsWith(Lower(s), FenceJson)
    THEN LET r == Drop(s, Len(FenceJson)) IN Drop(r, LeadRun(r, WhiteSpace))
    ELSE s

\* first replace of the copy-search handler: its pattern asks for one
\* whitespace character after "json" and then removes blanks only
ReplaceOpenJsonCopycat(s) ==
    IF StartsWith(Lower(s), FenceJson) /\ Len(s) > Len(FenceJson)
       /\ IsWs(s[Len(FenceJson) + 1])
    THEN LET r == Drop(s, Len(FenceJson) + 1) IN Drop(r, LeadRun(r, {" "}))
    ELSE s

\* second replace: a leading bare fence and all whitespace after it
ReplaceOpen(s) ==
    IF StartsWith(s, Fence)
    THEN LET r == Drop(s, Len(Fence)) IN Drop(r, LeadRun(r, WhiteSpace))
    ELSE s

\* third replace: a fence at the very end of the input (the pattern has no
\* m flag) and all whitespace before it
ReplaceClose(s) ==
    IF EndsWith(s, Fence)
    THEN LET r == Take(s, Len(s) - Len(Fence)) IN Take(r, Len(r) - TrailRun(r, WhiteSpace))
    ELSE s

\* cleanedText of the tweet-improvement handler: each replace works on the
\* value the one before it returned
CleanImprove(responseText) ==
    CHOOSE cleanedText \in
        {Trim(c) : c \in
            {ReplaceClose(b) : b \in
                {ReplaceOpen(a) : a \in {ReplaceOpenJson(responseText)}}}} : TRUE

\* cleanedText of the copy-search handler
CleanCopycat(responseText) ==
    CHOOSE cleanedText \in
        {Trim(c) : c \in
            {ReplaceClose(b) : b \in
                {ReplaceOpen(a) : a \in {ReplaceOpenJsonCopycat(responseText)}}}} : TRUE

(***************************************************************************)
(* JSON documents.  A document is one token; JsonValue gives what          *)
(* JSON.parse returns for it.  Every value is a record of the same shape:  *)
(* a field the document does not have is Absent (strings) or empty.        *)
(***************************************************************************)
Entry(h, b, c) == [hook |-> h, body |-> b, closing |-> c]

Value(isNull, type, tweet, tweetsKind, tweets, success, searchMode) ==
    [isNull |-> isNull, type |-> type, tweet |-> tweet, tweetsKind |-> tweetsKind,
     tweets |-> tweets, success |-> success, searchMode |-> searchMode]

\* tweet: a sequence holding the tweet object, empty when the field is missing.
\* tweetsKind: "absent", "array", or "string" (a truthy value that has no map).
JsonValue(tok) ==
    CASE tok = "docSingle" ->
           Value(FALSE, "single", <<Entry(<<"h">>, <<"b">>, <<"c">>)>>, "absent", << >>,
                 Absent, Absent)
      [] tok = "docThread" ->
           Value(FALSE, "thread", << >>, "array",
                 <<Entry(<<"h1">>, <<"b1">>, <<"c1">>), Entry(<<"h2">>, <<Absent>>, <<"c2">>)>>,
                 Absent, Absent)
      [] tok = "docThreadRule" ->
           Value(FALSE, "thread", << >>, "array",
                 <<Entry(<<"h1">>, <<"b1", "\n", "-", "-", "-", "\n", "b1">>, <<"c1">>),
                   Entry(<<"h2">>, <<"b2">>, <<"c2">>)>>,
                 Absent, Absent)
      [] tok = "docThreadEmpty" ->
           Value(FALSE, "thread", << >>, "array", << >>, Absent, Absent)
      [] tok = "docThreadString" ->
           Value(FALSE, "thread", << >>, "string", << >>, Absent, Absent)
      [] tok = "docSingleNoTweet" ->
           Value(FALSE, "single", << >>, "absent", << >>, Absent, Absent)
      [] tok = "docPoll" ->
           Value(FALSE, "poll", <<Entry(<<"h">>, <<"b">>, <<"c">>)>>, "absent", << >>,
                 Absent, Absent)
      [] tok = "docNoType" ->
           Value(FALSE, Absent, <<Entry(<<"h">>, <<"b">>, <<"c">>)>>, "absent", << >>,
                 Absent, Absent)
      [] tok = "docNull" ->
           Value(TRUE, Absent, << >>, "absent", << >>, Absent, Absent)
      [] tok = "docFindings" ->
           Value(FALSE, Absent, << >>, "absent", << >>, Absent, Absent)
      [] tok = "docFindingsOpen" ->
           Value(FALSE, Absent, << >>, "absent", << >>, Absent, "open")
      [] tok = "docFindingsFailed" ->
           Value(FALSE, Absent, << >>, "absent", << >>, "false", Absent)

JsonDocs ==
    {"docSingle", "docThread", "docThreadRule", "docThreadEmpty", "docThreadString", "docSingleNoTweet",
     "docPoll", "docNoType", "docNull", "docFindings", "docFindingsOpen",
     "docFindingsFailed"}

NoValue == Value(TRUE, Absent, << >>, "absent", << >>, Absent, Absent)

\* JSON.parse accepts whitespace around the one value and nothing else.
IsJson(s) == Len(Trim(s)) = 1 /\ Trim(s)[1] \in JsonDocs

JsonParse(s) == JsonValue(Trim(s)[1])

\* A template literal writes a missing field as the word undefined.
Interpolate(field) == IF field = <<Absent>> THEN <<"undefined">> ELSE field

BlankLine == <<"\n", "\n">>

\* The template literal that joins hook, body and closing by blank lines.
FormatTweet(t) ==
    Interpolate(t.hook) \o BlankLine \o Interpolate(t.body) \o BlankLine
        \o Interpolate(t.closing)

\* The try block of the tweet-improvement handler up to the database save.
\* threw: JSON.parse failed, or a property of null was read, or map was called
\* on a value that has none.
FormatTweets(cleanedText) ==
    IF ~IsJson(cleanedText)
    THEN [threw |-> TRUE, parsed |-> NoValue, formattedTweets |-> << >>]
    ELSE LET parsed == JsonParse(cleanedText) IN
         IF parsed.isNull
         THEN [threw |-> TRUE, parsed |-> parsed, formattedTweets |-> << >>]
         ELSE IF parsed.type = "single" /\ parsed.tweet # << >>
         THEN [threw |-> FALSE, parsed |-> parsed,
               formattedTweets |-> <<FormatTweet(parsed.tweet[1])>>]
         ELSE IF parsed.type = "thread" /\ parsed.tweetsKind # "absent"
         THEN IF parsed.tweetsKind = "array"
              THEN [threw |-> FALSE, parsed |-> parsed,
                    formattedTweets |->
                        [i \in 1..Len(parsed.tweets) |-> FormatTweet(parsed.tweets[i])]]
              ELSE [threw |-> TRUE, parsed |-> parsed, formattedTweets |-> << >>]
         ELSE [threw |-> FALSE, parsed |-> parsed, formattedTweets |-> << >>]

(***************************************************************************)
(* Configuration, requests and backend replies                             *)
(***************************************************************************)
\* The fallback models of the tweet-improvement handler, in their order.
MODELS == <<"moonshotai/kimi-k2:free", "z-ai/glm-4.5-air:free", "deepseek/deepseek-r1-0528:free">>

GROK_MODEL == "x-ai/grok-4.1-fast:online"

GEMINI == "gemini-2.5-flash-lite"

\* text.length above which mode auto selects the thread template
ThreadThreshold == 500

\* suspects.length above which a targeted search is rejected
MaxSuspects == 5

Truthy(v) == v \notin {Absent, ""}

\* text of a request body: missing, not a string, or a string of len characters
Text(kind, len) == [kind |-> kind, len |-> len]

TextValues ==
    {Text("absent", 0), Text("number", 0), Text("string", 0),
     Text("string", ThreadThreshold), Text("string", ThreadThreshold + 1)}

ModeValues == {"auto", "single", "thread", Absent}

VisitorValues == {Absent, "", "visitor1"}

\* An element of the suspects array that is not a string (a number, null).
NonString == <<"<number>">>

NoSuspects == [kind |-> "absent", items |-> << >>]

SuspectValues ==
    {NoSuspects,
     [kind |-> "string", items |-> << >>],
     [kind |-> "array", items |-> << >>],
     [kind |-> "array", items |-> <<<<"@", "bob">>>>],
     [kind |-> "array", items |-> <<<<" ">>, <<"@">>>>],
     [kind |-> "array", items |-> <<<<"bob">>, NonString>>],
     [kind |-> "array",
      items |-> <<<<" ", "@", "bob", " ">>, <<"@", "@", "eve">>, <<"@", " ", "mallory">>>>],
     [kind |-> "array", items |-> [i \in 1..MaxSuspects |-> <<"eve">>]],
     [kind |-> "array", items |-> [i \in 1..(MaxSuspects + 1) |-> <<"eve">>]]}

\* body: "object" when the body is a JSON object, whose fields follow;
\* "invalid" when it is not JSON; "null" when it is the JSON value null.
ImproveRequests ==
    [endpoint : {"improve"}, body : {"object"}, text : TextValues, addEmojis : BOOLEAN, mode : ModeValues,
     visitorId : VisitorValues, originalTweet : {Absent}, originalDate : {Absent},
     tweetUrl : {Absent}, suspects : {NoSuspects}, searchMode : {Absent}]

CopycatRequests ==
    [endpoint : {"copycat"}, body : {"object"}, text : {Text("absent", 0)}, addEmojis : {FALSE},
     mode : {Absent}, visitorId : {Absent}, originalTweet : {Absent, "", "tweet"},
     originalDate : {Absent, "date"}, tweetUrl : {Absent, "", "url"},
     suspects : SuspectValues, searchMode : {"open", "targeted", Absent}]

MalformedRequests ==
    [endpoint : {"improve", "copycat"}, body : {"invalid", "null"},
     text : {Text("absent", 0)}, addEmojis : {FALSE}, mode : {Absent}, visitorId : {Absent},
     originalTweet : {Absent}, originalDate : {Absent}, tweetUrl : {Absent},
     suspects : {NoSuspects}, searchMode : {Absent}]

Requests == ImproveRequests \cup CopycatRequests \cup MalformedRequests

\* process.env: which of the two keys are set
Envs == [GEMINI_API_KEY : BOOLEAN, OPENROUTER_API_KEY : BOOLEAN]

\* What a backend call can end with: an exception, a non-OK HTTP status (the
\* fetch of the primary backend only), or a reply whose text may be empty.
Reply(kind, text) == [kind |-> kind, text |-> text]

Pending == Reply("pending", << >>)

Fenced(open, body, close) == open \o body \o close

\* Texts a model may answer a tweet-improvement prompt with.
ImproveTexts ==
    {<<"docSingle">>, <<"docThread">>, <<"docThreadRule">>, <<"docThreadEmpty">>,
     <<"docThreadString">>, <<"docSingleNoTweet">>, <<"docPoll">>, <<"docNoType">>, <<"docNull">>,
     <<"prose", " ", "prose">>, <<"\n">>,
     Fenced(FenceJson \o <<"\n">>, <<"docThread">>, <<"\n">> \o Fence),
     Fenced(Fence \o <<"\n">>, <<"docSingle">>, <<"\n">> \o Fence \o <<"\n">>)}

\* Texts the search model may answer a copy-search prompt with.
CopycatTexts ==
    {<<"docFindings">>, <<"docFindingsOpen">>, <<"docFindingsFailed">>, <<"docNull">>,
     <<"prose">>, <<" ">>,
     Fenced(FenceJson \o <<"\n">>, <<"docFindings">>, <<"\n">> \o Fence),
     Fenced(FenceJson, <<"docFindings">>, Fence)}

GeminiReplies ==
    {Reply("throw", << >>), Reply("notok", << >>), Reply("ok", << >>)}
        \cup {Reply("ok", t) : t \in ImproveTexts}

OpenRouterReplies ==
    {Reply("throw", << >>), Reply("ok", << >>)} \cup {Reply("ok", t) : t \in ImproveTexts}

GrokReplies ==
    {Reply("throw", << >>), Reply("ok", << >>)} \cup {Reply("ok", t) : t \in CopycatTexts}

RepliesOf(backend) ==
    IF backend = GEMINI THEN GeminiReplies
    ELSE IF backend = GROK_MODEL THEN GrokReplies
    ELSE OpenRouterReplies

(***************************************************************************)
(* State                                                                   *)
(***************************************************************************)
VARIABLES
    env,          \* process.env, read-only after start
    request,      \* the body of the request being handled
    pc,           \* where the handler is: received, an await, or done
    prompt,       \* the prompt built for the backends
    attempts,     \* the backend calls made for the request, in order
    result,       \* responseText, cleanedText, parsed, formattedTweets
    insert,       \* the db.insert call of the request
    insertCalls,  \* how many times db.insert was called for the request
    store,        \* the rows of the history table
    response,     \* the HTTP response returned, NoResponse until then
    fence,        \* a response text with and without a code fence, and both cleaned
    history,      \* the history endpoints: ids given out, the last call and its reply
    ui,           \* the history component: the list displayed and its requests in flight
    peer,         \* the invocation of a handler that is in flight beside the one above
    form          \* the form of the page or component that sent the request

vars == <<env, request, pc, prompt, attempts, result, insert, insertCalls, store, response,
          fence, history, ui, peer, form>>

\* The local variables of one invocation of a handler.
handlerVars == <<request, pc, prompt, attempts, result, insert, insertCalls, response>>

NoPrompt ==
    [template |-> Absent, emojiInstruction |-> Absent, text |-> Text("absent", 0),
     tweetUrl |-> Absent, originalTweet |-> Absent, originalDate |-> Absent,
     suspects |-> << >>]

NoResult ==
    [responseText |-> << >>, cleanedText |-> << >>, parsed |-> NoValue,
     formattedTweets |-> << >>]

NoRow ==
    [visitorId |-> Absent, originalText |-> Text("absent", 0), improvedText |-> << >>,
     isThread |-> FALSE, mode |-> Absent]

NoInsert == [state |-> "none", values |-> NoRow]

\* A response: the status and the fields of the JSON body.  kind tells which
\* fields the body has: error (error), improved (success, type, tweets,
\* rawData, isThread, characterCount, parseWarning when set), or search
\* (success, searchMode, rawResponse or the fields of the parsed document,
\* parseWarning when set).
NoResponse ==
    [status |-> 0, kind |-> "none", error |-> Absent, success |-> FALSE, type |-> Absent,
     tweets |-> << >>, rawData |-> NoValue, isThread |-> FALSE, characterCount |-> 0,
     parseWarning |-> FALSE, searchMode |-> Absent, rawResponse |-> << >>]

ErrorResponse(status, error) ==
    [NoResponse EXCEPT !.status = status, !.kind = "error", !.error = error]

NoFence ==
    [path |-> "none", body |-> << >>, wrapped |-> << >>, cleanedBody |-> << >>,
     cleanedWrapped |-> << >>, state |-> "none"]

\* A row of the history table as the history endpoint returns it: the values
\* inserted and the id and createdAt the table gives the row (createdAt is
\* the position of the write among all writes).
Stored(values, id) ==
    [id |-> id, visitorId |-> values.visitorId, originalText |-> values.originalText,
     improvedText |-> values.improvedText, isThread |-> values.isThread,
     mode |-> values.mode, createdAt |-> id]

NoCall == [kind |-> "none", id |-> 0, visitorId |-> Absent, before |-> << >>]

NoReply == [status |-> 0, history |-> << >>]

\* nextId: the id the next row gets.  created: id and owner of every row ever
\* written.  ownerDeletes: the ids whose owner has asked for their deletion.
\* call, reply: the last call of a history operation and what it returned.
NoHistory ==
    [nextId |-> 1, created |-> {}, ownerDeletes |-> {}, call |-> NoCall, reply |-> NoReply]

\* record: the insert resolves and the row is in the table.
StoreWrite(values) ==
    /\ store' = Append(store, Stored(values, history.nextId))
    /\ history' = [history EXCEPT
                      !.nextId = @ + 1,
                      !.created = @ \cup {[id |-> history.nextId, owner |-> values.visitorId]},
                      !.call = [kind |-> "record", id |-> history.nextId,
                                visitorId |-> values.visitorId, before |-> store],
                      !.reply = NoReply]

\* The history component before it is mounted.
NoUi == [visitorId |-> Absent, history |-> << >>, requests |-> {}, removed |-> {},
         last |-> [kind |-> "none", id |-> 0, status |-> 0, shown |-> FALSE]]

\* Fields a visitor can type handles into on the copy-search page.
SuspectFields == 5

\* The forms as they are first rendered: page tells which of the two has been
\* filled in.  Text fields are strings; inputText is known by its length and
\* by whether it is all whitespace.
NoForm ==
    [page |-> "none", searchMode |-> "open", originalTweet |-> << >>, tweetUrl |-> << >>,
     originalDate |-> "", suspects |-> [i \in 1..SuspectFields |-> << >>],
     inputText |-> [len |-> 0, blank |-> TRUE], addEmojis |-> FALSE, mode |-> "auto",
     visitorId |-> Absent, error |-> ""]

NoRequest ==
    [endpoint |-> "none", body |-> "object", text |-> Text("absent", 0), addEmojis |-> FALSE, mode |-> Absent,
     visitorId |-> Absent, originalTweet |-> Absent, originalDate |-> Absent,
     tweetUrl |-> Absent, suspects |-> NoSuspects, searchMode |-> Absent]

\* No second invocation.
NoPeer ==
    [request |-> NoRequest, pc |-> "idle", prompt |-> NoPrompt, attempts |-> << >>,
     result |-> NoResult, insert |-> NoInsert, insertCalls |-> 0, response |-> NoResponse]

Init ==
    /\ env \in Envs
    /\ request = NoRequest
    /\ pc = "idle"
    /\ prompt = NoPrompt
    /\ attempts = << >>
    /\ result = NoResult
    /\ insert = NoInsert
    /\ insertCalls = 0
    /\ store = << >>
    /\ response = NoResponse
    /\ fence = NoFence
    /\ history = NoHistory
    /\ ui = NoUi
    /\ peer = NoPeer
    /\ form = NoForm

\* A client posts a request: request.json() gives the handler its body.
Receive ==
    /\ pc = "idle"
    /\ request' \in Requests
    /\ pc' = "received"
    /\ UNCHANGED <<fence, history, env, prompt, attempts, result, insert, insertCalls, store, response>>
    /\ UNCHANGED <<ui, peer, form>>

(***************************************************************************)
(* Backend calls                                                           *)
(***************************************************************************)
Attempt(backend, reply) == [backend |-> backend, reply |-> reply]

LastAttempt == attempts[Len(attempts)]

Outstanding == attempts # << >> /\ LastAttempt.reply = Pending

Settled == attempts # << >> /\ LastAttempt.reply # Pending

\* The call is sent: the handler awaits it.
Call(backend) == attempts' = Append(attempts, Attempt(backend, Pending))

\* The backend answers the outstanding call, or the call fails.
BackendSettles ==
    /\ pc \in {"awaitGemini", "awaitOpenRouter", "awaitGrok"}
    /\ Outstanding
    /\ \E reply \in RepliesOf(LastAttempt.backend) :
          attempts' = [attempts EXCEPT ![Len(attempts)].reply = reply]
    /\ UNCHANGED <<fence, history, env, request, pc, prompt, result, insert, insertCalls, store, response>>
    /\ UNCHANGED <<ui, peer, form>>

\* text of generateWithGemini: null (here the empty string) unless the call
\* returned OK with a text
GeminiText(reply) == IF reply.kind = "ok" THEN reply.text ELSE << >>

\* text of generateWithOpenRouter: the content, trimmed
OpenRouterText(reply) == IF reply.kind = "ok" THEN Trim(reply.text) ELSE << >>

\* The text an attempt ended with, as the gateway sees it.
AttemptText(a) ==
    IF a.backend = GEMINI THEN GeminiText(a.reply) ELSE OpenRouterText(a.reply)

\* Index in MODELS of the fallback model of the last attempt.
ModelIndex == Cardinality({i \in 1..Len(attempts) : attempts[i].backend # GEMINI})

(***************************************************************************)
(* The tweet-improvement handler                                           *)
(***************************************************************************)
\* Mutant of TextMissing: the empty string passes.
TextMissingUnlessEmpty(text) == text.kind # "string"

\* !text || typeof text !== "string"
TextMissing(text) == text.kind # "string" \/ text.len = 0

\* Mutant of IsThread: the comparison includes the threshold.
IsThreadInclusive(mode, text) ==
    mode = "thread" \/ (mode = "auto" /\ text.len >= ThreadThreshold)

\* mode === "thread" || (mode === "auto" && text.length > 500)
IsThread(mode, text) == mode = "thread" \/ (mode = "auto" /\ text.len > ThreadThreshold)

ImprovePrompt(req) ==
    [NoPrompt EXCEPT
        !.template = IF IsThread(req.mode, req.text) THEN "THREAD_PROMPT"
                     ELSE "SINGLE_TWEET_PROMPT",
        !.emojiInstruction = IF req.addEmojis THEN "ADD emojis sparingly"
                             ELSE "DO NOT add any emojis",
        !.text = req.text]

\* await request.json() rejects when the body is not JSON, and destructuring
\* the value null throws: both reach the outer catch of the handler.
BodyThrows(req) == req.body \in {"invalid", "null"}

\* Mutant of KeyMissing: the request goes on when the primary key is set.
KeyMissingBoth(e) == ~e.OPENROUTER_API_KEY /\ ~e.GEMINI_API_KEY

\* !process.env.OPENROUTER_API_KEY
KeyMissing(e) == ~e.OPENROUTER_API_KEY

TextRequired == ErrorResponse(400, "Text is required")

KeyNotConfigured ==
    ErrorResponse(500, "OPENROUTER_API_KEY not configured. Please add it to .env.local")

\* The response of the outer catch.
ImproveFailed == ErrorResponse(500, "Failed to improve tweet")

\* Mutant of Unavailable: the exhausted gateway reported as a server error.
UnavailableAsServerError == ErrorResponse(500, "All AI models are currently unavailable")

Unavailable == ErrorResponse(503, "All AI models are currently unavailable")

\* Mutant of FallbackResponse: a text that does not parse is a hard error.
FallbackAsError(cleanedText) == ErrorResponse(500, "Failed to improve tweet")

\* The body returned when the try block threw: the cleaned text as one tweet.
FallbackResponse(cleanedText) ==
    [NoResponse EXCEPT !.status = 200, !.kind = "improved", !.success = TRUE,
                       !.type = "single", !.tweets = <<cleanedText>>, !.isThread = FALSE,
                       !.characterCount = Len(cleanedText), !.parseWarning = TRUE]

\* The body returned at the end of the try block.
SuccessResponse(parsed, formattedTweets) ==
    [NoResponse EXCEPT !.status = 200, !.kind = "improved", !.success = TRUE,
                       !.type = parsed.type, !.tweets = formattedTweets,
                       !.rawData = parsed, !.isThread = (parsed.type = "thread"),
                       !.characterCount = IF formattedTweets # << >>
                                          THEN Len(formattedTweets[1]) ELSE 0]

Separator == <<"\n", "-", "-", "-", "\n">>

\* Array.prototype.join
RECURSIVE Join(_, _)
Join(strings, sep) ==
    IF strings = << >> THEN << >>
    ELSE IF Len(strings) = 1 THEN strings[1]
    ELSE strings[1] \o sep \o Join(Tail(strings), sep)

\* String.prototype.split with a separator that is not empty
RECURSIVE Split(_, _)
Split(s, sep) ==
    LET at == {i \in 1..(Len(s) - Len(sep) + 1) : SubSeq(s, i, i + Len(sep) - 1) = sep}
    IN  IF at = {} THEN <<s>>
        ELSE LET first == CHOOSE i \in at : \A j \in at : i <= j
             IN  <<SubSeq(s, 1, first - 1)>> \o Split(Drop(s, first + Len(sep) - 1), sep)

\* The tweets the history page takes out of a stored improvedText.
DisplayParts(improvedText) == Split(improvedText, Separator)

\* Mutant of ShouldSave: the visitorId is not looked at.
ShouldSaveAnyVisitor(visitorId, formattedTweets) == Len(formattedTweets) > 0

\* visitorId && formattedTweets.length > 0
ShouldSave(visitorId, formattedTweets) == Truthy(visitorId) /\ Len(formattedTweets) > 0

\* Mutant of Row: the visitorId is kept where every invocation reads it, and
\* the invocation that came last has set it.
RowOfLastVisitor(req, parsed, formattedTweets) ==
    [visitorId |-> IF Truthy(peer.request.visitorId) THEN peer.request.visitorId
                   ELSE req.visitorId,
     originalText |-> req.text,
     improvedText |-> Join(formattedTweets, Separator),
     isThread |-> parsed.type = "thread",
     mode |-> IF Truthy(req.mode) THEN req.mode ELSE "auto"]

\* The values of the row inserted.
Row(req, parsed, formattedTweets) ==
    [visitorId |-> req.visitorId, originalText |-> req.text,
     improvedText |-> Join(formattedTweets, Separator),
     isThread |-> parsed.type = "thread",
     mode |-> IF Truthy(req.mode) THEN req.mode ELSE "auto"]

\* Mutant of SaveSettled: the promise awaited stays pending after a rejection.
SaveSettledOnResolve(state) == state = "resolved"

\* The promise awaited is db.insert(...).catch(...): it settles when the
\* insert has resolved or rejected.
SaveSettled(state) == state \in {"resolved", "rejected"}

\* Mutant of AfterSave: a rejected insert reaches the outer catch.
AfterSaveSurfacing(state, okResponse) ==
    IF state = "rejected" THEN ErrorResponse(500, "Failed to improve tweet") ELSE okResponse

\* What the handler returns after the save: the catch handler only logs.
AfterSave(state, okResponse) == okResponse

Respond(r) == response' = r /\ pc' = "done"

\* Mutant of Normalize: the insert is started and not awaited.
NormalizeWithoutAwait(responseText) ==
    \E cleanedText \in {CleanImprove(responseText)} :
    \E f \in {FormatTweets(cleanedText)} :
        /\ result' = [responseText |-> responseText, cleanedText |-> cleanedText,
                      parsed |-> f.parsed, formattedTweets |-> f.formattedTweets]
        /\ IF f.threw
           THEN /\ Respond(FallbackResponse(cleanedText))
                /\ UNCHANGED <<insert, insertCalls>>
           ELSE IF ShouldSave(request.visitorId, f.formattedTweets)
           THEN /\ insert' = [state |-> "pending",
                              values |-> Row(request, f.parsed, f.formattedTweets)]
                /\ insertCalls' = insertCalls + 1
                /\ Respond(SuccessResponse(f.parsed, f.formattedTweets))
           ELSE /\ Respond(SuccessResponse(f.parsed, f.formattedTweets))
                /\ UNCHANGED <<insert, insertCalls>>

\* From the gateway's text to the response or to the database save.
Normalize(responseText) ==
    \E cleanedText \in {CleanImprove(responseText)} :
    \E f \in {FormatTweets(cleanedText)} :
        /\ result' = [responseText |-> responseText, cleanedText |-> cleanedText,
                      parsed |-> f.parsed, formattedTweets |-> f.formattedTweets]
        /\ IF f.threw
           THEN /\ Respond(FallbackResponse(cleanedText))
                /\ UNCHANGED <<insert, insertCalls>>
           ELSE IF ShouldSave(request.visitorId, f.formattedTweets)
           THEN /\ insert' = [state |-> "pending",
                              values |-> Row(request, f.parsed, f.formattedTweets)]
                /\ insertCalls' = insertCalls + 1
                /\ pc' = "awaitInsert"
                /\ UNCHANGED response
           ELSE /\ Respond(SuccessResponse(f.parsed, f.formattedTweets))
                /\ UNCHANGED <<insert, insertCalls>>

\* Mutant of FallbackModel: the list is walked from its end.
FallbackModelReversed(i) == MODELS[Len(MODELS) + 1 - i]

\* The fallback model tried as the i-th.
FallbackModel(i) == MODELS[i]

\* POST up to its first await: validation, the prompt, the first backend call.
ImproveStart ==
    /\ pc = "received"
    /\ request.endpoint = "improve"
    /\ IF BodyThrows(request)
       THEN Respond(ImproveFailed) /\ UNCHANGED <<prompt, attempts>>
       ELSE IF TextMissing(request.text)
       THEN Respond(TextRequired) /\ UNCHANGED <<prompt, attempts>>
       ELSE IF KeyMissing(env)
       THEN Respond(KeyNotConfigured) /\ UNCHANGED <<prompt, attempts>>
       ELSE /\ prompt' = ImprovePrompt(request)
            /\ UNCHANGED response
            /\ IF env.GEMINI_API_KEY
               THEN Call(GEMINI) /\ pc' = "awaitGemini"
               ELSE Call(FallbackModel(1)) /\ pc' = "awaitOpenRouter"
    /\ UNCHANGED <<fence, history, env, request, result, insert, insertCalls, store>>
    /\ UNCHANGED <<ui, peer, form>>

\* generateWithGemini returns; POST falls back to generateWithOpenRouter.
ImproveAfterGemini ==
    /\ pc = "awaitGemini"
    /\ Settled
    /\ IF GeminiText(LastAttempt.reply) # << >>
       THEN Normalize(GeminiText(LastAttempt.reply)) /\ UNCHANGED attempts
       ELSE /\ Call(FallbackModel(1))
            /\ pc' = "awaitOpenRouter"
            /\ UNCHANGED <<result, insert, insertCalls, response>>
    /\ UNCHANGED <<fence, history, env, request, prompt, store>>
    /\ UNCHANGED <<ui, peer, form>>

\* One round of the loop of generateWithOpenRouter, and POST after it.
ImproveAfterOpenRouter ==
    /\ pc = "awaitOpenRouter"
    /\ Settled
    /\ IF OpenRouterText(LastAttempt.reply) # << >>
       THEN Normalize(OpenRouterText(LastAttempt.reply)) /\ UNCHANGED attempts
       ELSE IF ModelIndex < Len(MODELS)
       THEN /\ Call(FallbackModel(ModelIndex + 1))
            /\ UNCHANGED <<pc, result, insert, insertCalls, response>>
       ELSE /\ Respond(Unavailable)
            /\ UNCHANGED <<attempts, result, insert, insertCalls>>
    /\ UNCHANGED <<fence, history, env, request, prompt, store>>
    /\ UNCHANGED <<ui, peer, form>>

\* The store resolves the insert (the row is written) or rejects it.
InsertSettles ==
    /\ pc = "awaitInsert"
    /\ insert.state = "pending"
    /\ \/ insert' = [insert EXCEPT !.state = "resolved"]
          /\ StoreWrite(insert.values)
       \/ insert' = [insert EXCEPT !.state = "rejected"]
          /\ UNCHANGED <<store, history>>
    /\ UNCHANGED <<fence, env, request, pc, prompt, attempts, result, insertCalls, response>>
    /\ UNCHANGED <<ui, peer, form>>

\* POST after the awaited save.
ImproveAfterInsert ==
    /\ pc = "awaitInsert"
    /\ SaveSettled(insert.state)
    /\ Respond(AfterSave(insert.state,
                         SuccessResponse(result.parsed, result.formattedTweets)))
    /\ UNCHANGED <<fence, history, env, request, prompt, attempts, result, insert, insertCalls, store>>
    /\ UNCHANGED <<ui, peer, form>>

(***************************************************************************)
(* The copy-search handler                                                 *)
(***************************************************************************)
\* !originalTweet && !tweetUrl
\* Mutant of NoOriginal: both fields are asked for.
NoOriginalEither(req) == ~Truthy(req.originalTweet) \/ ~Truthy(req.tweetUrl)

NoOriginal(req) == ~Truthy(req.originalTweet) /\ ~Truthy(req.tweetUrl)

IsOpenSearch(req) == req.searchMode = "open"

\* !suspects || !Array.isArray(suspects) || suspects.length === 0
NoSuspectGiven(suspects) == suspects.kind # "array" \/ Len(suspects.items) = 0

\* Mutant of TooManySuspects: the limit itself is rejected.
TooManySuspectsInclusive(suspects) == Len(suspects.items) >= MaxSuspects

TooManySuspects(suspects) == Len(suspects.items) > MaxSuspects

\* s.trim() of an element that is not a string throws a TypeError.
MapThrows(suspects) == \E i \in 1..Len(suspects.items) : suspects.items[i] = NonString

\* s.trim().replace(/^@/, "")
CleanSuspect(s) == IF StartsWith(Trim(s), <<"@">>) THEN Tail(Trim(s)) ELSE Trim(s)

\* Array.prototype.filter
RECURSIVE NonEmpty(_)
NonEmpty(strings) ==
    IF strings = << >> THEN << >>
    ELSE IF Len(strings[1]) > 0 THEN <<strings[1]>> \o NonEmpty(Tail(strings))
    ELSE NonEmpty(Tail(strings))

CleanedSuspects(suspects) ==
    NonEmpty([i \in 1..Len(suspects.items) |-> CleanSuspect(suspects.items[i])])

\* The prompt: the template, the fields of the request that are set, and for
\* a targeted search the list of suspects (the i-th is numbered i).
CopycatPrompt(req) ==
    [NoPrompt EXCEPT
        !.template = IF IsOpenSearch(req) THEN "OPEN_SEARCH_PROMPT"
                     ELSE "TARGETED_SEARCH_PROMPT",
        !.tweetUrl = IF Truthy(req.tweetUrl) THEN req.tweetUrl ELSE Absent,
        !.originalTweet = IF Truthy(req.originalTweet) THEN req.originalTweet ELSE Absent,
        !.originalDate = IF Truthy(req.originalDate) THEN req.originalDate ELSE Absent,
        !.suspects = IF IsOpenSearch(req) THEN << >> ELSE CleanedSuspects(req.suspects)]

OriginalRequired == ErrorResponse(400, "Either original tweet text or tweet URL is required")

SuspectRequired ==
    ErrorResponse(400, "At least one suspect handle is required for targeted search")

CopycatKeyNotConfigured == ErrorResponse(500, "OPENROUTER_API_KEY not configured")

SuspectLimit == ErrorResponse(400, "Maximum 5 suspects allowed")

NoModelResponse == ErrorResponse(503, "No response from AI model")

DetectionFailed == ErrorResponse(500, "Failed to detect copycats")

HandledMode(req) == IF IsOpenSearch(req) THEN "open" ELSE "targeted"

\* success and searchMode come before the spread of the parsed document, so
\* the document's own fields of these names replace them.
SearchResponse(req, parsed) ==
    [NoResponse EXCEPT !.status = 200, !.kind = "search", !.rawData = parsed,
                       !.success = IF parsed.success = Absent THEN TRUE
                                   ELSE parsed.success = "true",
                       !.searchMode = IF parsed.searchMode = Absent THEN HandledMode(req)
                                      ELSE parsed.searchMode]

RawSearchResponse(req, cleanedText) ==
    [NoResponse EXCEPT !.status = 200, !.kind = "search", !.success = TRUE,
                       !.searchMode = HandledMode(req), !.rawResponse = cleanedText,
                       !.parseWarning = TRUE]

\* POST up to its await: validation, the prompt, the backend call.
CopycatStart ==
    /\ pc = "received"
    /\ request.endpoint = "copycat"
    /\ IF BodyThrows(request)
       THEN Respond(DetectionFailed) /\ UNCHANGED <<prompt, attempts>>
       ELSE IF NoOriginal(request)
       THEN Respond(OriginalRequired) /\ UNCHANGED <<prompt, attempts>>
       ELSE IF ~IsOpenSearch(request) /\ NoSuspectGiven(request.suspects)
       THEN Respond(SuspectRequired) /\ UNCHANGED <<prompt, attempts>>
       ELSE IF ~IsOpenSearch(request) /\ TooManySuspects(request.suspects)
       THEN Respond(SuspectLimit) /\ UNCHANGED <<prompt, attempts>>
       ELSE IF KeyMissing(env)
       THEN Respond(CopycatKeyNotConfigured) /\ UNCHANGED <<prompt, attempts>>
       ELSE IF ~IsOpenSearch(request) /\ MapThrows(request.suspects)
       THEN Respond(DetectionFailed) /\ UNCHANGED <<prompt, attempts>>
       ELSE /\ prompt' = CopycatPrompt(request)
            /\ Call(GROK_MODEL)
            /\ pc' = "awaitGrok"
            /\ UNCHANGED response
    /\ UNCHANGED <<fence, history, env, request, result, insert, insertCalls, store>>
    /\ UNCHANGED <<ui, peer, form>>

\* POST after the backend call: the response.
CopycatAfterGrok ==
    /\ pc = "awaitGrok"
    /\ Settled
    /\ \E reply \in {LastAttempt.reply} :
       \E responseText \in {OpenRouterText(reply)} :
       \E cleanedText \in {CleanCopycat(responseText)} :
           IF reply.kind = "throw"
           THEN Respond(DetectionFailed) /\ UNCHANGED result
           ELSE IF responseText = << >>
           THEN Respond(NoModelResponse) /\ UNCHANGED result
           ELSE /\ result' = [responseText |-> responseText, cleanedText |-> cleanedText,
                              parsed |-> IF IsJson(cleanedText) THEN JsonParse(cleanedText)
                                         ELSE NoValue,
                              formattedTweets |-> << >>]
                /\ IF IsJson(cleanedText)
                   THEN Respond(SearchResponse(request, JsonParse(cleanedText)))
                   ELSE Respond(RawSearchResponse(request, cleanedText))
    /\ UNCHANGED <<fence, history, env, request, prompt, attempts, insert, insertCalls, store>>
    /\ UNCHANGED <<ui, peer, form>>

Next ==
    \/ Receive
    \/ ImproveStart
    \/ ImproveAfterGemini
    \/ ImproveAfterOpenRouter
    \/ ImproveAfterInsert
    \/ CopycatStart
    \/ CopycatAfterGrok
    \/ BackendSettles
    \/ InsertSettles

Spec == Init /\ [][Next]_vars

\* The steps of the handlers themselves: the runtime runs a handler whenever
\* the promise it awaits has settled.
HandlerStep ==
    \/ ImproveStart
    \/ ImproveAfterGemini
    \/ ImproveAfterOpenRouter
    \/ ImproveAfterInsert
    \/ CopycatStart
    \/ CopycatAfterGrok

\* The handlers are scheduled; nothing is assumed of the backends or the store.
FairSpec == Spec /\ WF_vars(HandlerStep)

\* The handlers are scheduled and every external call settles in the end.
LiveSpec == Spec /\ WF_vars(HandlerStep) /\ WF_vars(BackendSettles) /\ WF_vars(InsertSettles)

(***************************************************************************)
(* Properties of the gateway                                               *)
(***************************************************************************)
IsImprove == request.endpoint = "improve"

Responded == response # NoResponse

\* The backends a tweet-improvement request may call, in the order of the calls.
GatewayOrder == IF env.GEMINI_API_KEY THEN <<GEMINI>> \o MODELS ELSE MODELS

\* An attempt that ended without a text: an exception, a non-OK status, or an
\* empty text (for a fallback model the text is the trimmed content).
EndedEmpty(a) ==
    \/ a.reply.kind \in {"throw", "notok"}
    \/ a.reply.kind = "ok" /\ a.backend = GEMINI /\ a.reply.text = << >>
    \/ a.reply.kind = "ok" /\ a.backend # GEMINI /\ Trim(a.reply.text) = << >>

EndedWithText(a) == a.reply.kind = "ok" /\ ~EndedEmpty(a)

\* C1: the attempts of a tweet-improvement request are a prefix of primary,
\* then the three fallback models in list order (at most four); every attempt
\* but the last has ended, and ended without a text, so no attempt follows one
\* that returned a text and no two are outstanding; and the text handed to the
\* normalizer is the text of the last attempt, the first that is not empty.
C1_SequentialFallback ==
    IsImprove =>
        /\ Len(attempts) <= Len(GatewayOrder)
        /\ \A i \in 1..Len(attempts) : attempts[i].backend = GatewayOrder[i]
        /\ \A i \in 1..(Len(attempts) - 1) : EndedEmpty(attempts[i])
        /\ result.responseText # << >> =>
              /\ EndedWithText(LastAttempt)
              /\ result.responseText =
                    IF LastAttempt.backend = GEMINI THEN LastAttempt.reply.text
                    ELSE Trim(LastAttempt.reply.text)
        /\ (Responded /\ attempts # << >> /\ result.responseText = << >>) =>
              /\ Len(attempts) = Len(GatewayOrder)
              /\ EndedEmpty(LastAttempt)

\* C1 witness: the primary and the first two fallback models came back empty
\* and the third fallback model returned the text that was normalized.
C1_Witness ==
    /\ IsImprove
    /\ Len(attempts) = 4
    /\ attempts[4].backend = MODELS[3]
    /\ result.responseText = <<"docSingle">>
    /\ Responded

\* C2: with no primary key and all three fallback models failed (exception or
\* empty content), the handler answers 503 with the unavailable error and no
\* history record is written, whatever the visitorId.
C2_AllFallbacksFail ==
    (/\ IsImprove
     /\ ~env.GEMINI_API_KEY
     /\ Len(attempts) = Len(MODELS)
     /\ \A i \in 1..Len(attempts) : EndedEmpty(attempts[i])) =>
        /\ insertCalls = 0
        /\ store = << >>
        /\ pc \in {"awaitOpenRouter", "done"}
        /\ pc = "done" =>
              /\ response.status = 503
              /\ response.kind = "error"
              /\ response.error = "All AI models are currently unavailable"

\* C2 witness: such a request, carrying a visitorId, has been answered.
C2_Witness ==
    /\ IsImprove
    /\ ~env.GEMINI_API_KEY
    /\ Len(attempts) = Len(MODELS)
    /\ \A i \in 1..Len(attempts) : attempts[i].reply.kind = "throw"
    /\ request.visitorId = "visitor1"
    /\ pc = "done"

\* C3: with mode auto the single template is used up to 500 characters and
\* the thread template above; mode single and mode thread decide for every
\* length.
C3_TemplateSelection ==
    (IsImprove /\ prompt # NoPrompt) =>
        /\ request.mode = "auto" /\ request.text.len <= 500 =>
              prompt.template = "SINGLE_TWEET_PROMPT"
        /\ request.mode = "auto" /\ request.text.len > 500 =>
              prompt.template = "THREAD_PROMPT"
        /\ request.mode = "single" => prompt.template = "SINGLE_TWEET_PROMPT"
        /\ request.mode = "thread" => prompt.template = "THREAD_PROMPT"

\* C3 witness: a text of exactly 500 characters in mode auto got its prompt.
C3_Witness ==
    /\ IsImprove
    /\ request.mode = "auto"
    /\ request.text.len = 500
    /\ prompt.template = "SINGLE_TWEET_PROMPT"

(***************************************************************************)
(* Properties of the normalizer and of the history write                   *)
(***************************************************************************)
\* The gateway handed a text to the normalizer of the tweet-improvement handler.
Normalized == IsImprove /\ result.responseText # << >>

\* C4: when the gateway's text is not valid JSON after fence stripping, the
\* handler answers 200 with success, the parse warning, isThread false and
\* the cleaned text as the only tweet, and writes no history record.
C4_RawTextFallback ==
    (Normalized /\ ~IsJson(CleanImprove(result.responseText))) =>
        /\ pc = "done"
        /\ response.status = 200
        /\ response.success
        /\ response.parseWarning
        /\ ~response.isThread
        /\ response.tweets = <<CleanImprove(result.responseText)>>
        /\ insertCalls = 0
        /\ store = << >>

\* C4 witness: prose from a fallback model, for a request with a visitorId,
\* was answered.
C4_Witness ==
    /\ Normalized
    /\ result.cleanedText = <<"prose", " ", "prose">>
    /\ request.visitorId = "visitor1"
    /\ response.parseWarning

\* The response that ends the try block: the parse succeeded and nothing threw.
ParsedResponse == IsImprove /\ Responded /\ response.status = 200 /\ ~response.parseWarning

\* C6: on a successful parse a response of type single yields exactly one
\* tweet, hook, body and closing joined by blank lines, and a response of
\* type thread yields one such string per entry, in the order of the entries.
C6_TweetsFromEntries ==
    (ParsedResponse /\ IsJson(result.cleanedText)) =>
        LET parsed == JsonParse(result.cleanedText) IN
        /\ (~parsed.isNull /\ parsed.type = "single") =>
              /\ Len(response.tweets) = 1
              /\ parsed.tweet # << >> =>
                    response.tweets[1] =
                        Interpolate(parsed.tweet[1].hook) \o <<"\n", "\n">>
                            \o Interpolate(parsed.tweet[1].body) \o <<"\n", "\n">>
                            \o Interpolate(parsed.tweet[1].closing)
        /\ (~parsed.isNull /\ parsed.type = "thread") =>
              /\ Len(response.tweets) = Len(parsed.tweets)
              /\ \A i \in 1..Len(parsed.tweets) :
                    response.tweets[i] =
                        Interpolate(parsed.tweets[i].hook) \o <<"\n", "\n">>
                            \o Interpolate(parsed.tweets[i].body) \o <<"\n", "\n">>
                            \o Interpolate(parsed.tweets[i].closing)

\* C7: every success response of the tweet-improvement handler has type
\* single or thread and at least one tweet.
C7_SuccessHasKindAndTweets ==
    (IsImprove /\ Responded /\ response.status = 200 /\ response.success) =>
        /\ response.type \in {"single", "thread"}
        /\ response.tweets # << >>

\* C8: the response after the save is the response of the parsed result, 200
\* with the generated tweets, whether the insert resolved or rejected.
C8_SaveOutcomeInvisible ==
    (IsImprove /\ Responded /\ insertCalls > 0) =>
        /\ response.status = 200
        /\ response.kind = "improved"
        /\ response.success
        /\ ~response.parseWarning
        /\ response.type = JsonParse(result.cleanedText).type
        /\ response.tweets = FormatTweets(result.cleanedText).formattedTweets
        /\ response.tweets # << >>
        /\ response.rawData = JsonParse(result.cleanedText)
        /\ response.isThread = (JsonParse(result.cleanedText).type = "thread")
        /\ response.characterCount = Len(response.tweets[1])
        /\ response.error = Absent

\* C8 witness: the insert rejected and the request was answered.
C8_Witness ==
    /\ IsImprove
    /\ insert.state = "rejected"
    /\ Responded
    /\ store = << >>

\* C10: a request calls the insert at most once, and only if it is a
\* tweet-improvement request with a visitorId whose result parsed and has at
\* least one tweet; copy-search requests and requests answered 400, 500, 503
\* or with the raw-text fallback write nothing.
C10_WritesOnlyOnGeneration ==
    /\ insertCalls <= 1
    /\ Len(store) <= insertCalls
    /\ insertCalls = 0 => insert.state = "none"
    /\ insertCalls = 1 =>
          /\ IsImprove
          /\ Truthy(request.visitorId)
          /\ IsJson(result.cleanedText)
          /\ result.formattedTweets # << >>
          /\ Responded => (response.status = 200 /\ ~response.parseWarning)
    /\ (Responded /\ (~IsImprove \/ response.status # 200 \/ response.parseWarning)) =>
          (insertCalls = 0 /\ store = << >>)

\* C10 witness: a thread of a visitor was written, once.
C10_Witness ==
    /\ insertCalls = 1
    /\ Len(store) = 1
    /\ store[1].visitorId = "visitor1"
    /\ store[1].isThread
    /\ Responded

\* The gateway produced a text that parsed and formatted without an exception.
ParsableResult == Normalized /\ ~FormatTweets(CleanImprove(result.responseText)).threw

\* C9 as stated: once the gateway has produced a parsable result the handler
\* returns the response, even if the store write never completes.
C9_RespondsWithoutStore == ParsableResult ~> Responded

\* C9 as amended: the response is not returned while the store write is
\* pending, and once the gateway has produced a parsable result and the store
\* write has settled (or none was started) the handler returns the response.
C9_RespondsAfterSave ==
    /\ [](insert.state = "pending" => ~Responded)
    /\ (ParsableResult /\ insert.state # "pending") ~> Responded

\* C9 witness: the write resolved, the row is in the table, and the response
\* was returned after it.
C9_Witness ==
    /\ ParsableResult
    /\ insert.state = "resolved"
    /\ store = <<Stored(insert.values, 1)>>
    /\ Responded

(***************************************************************************)
(* Properties of validation and configuration                              *)
(***************************************************************************)
\* A copy-search request whose body is a JSON object, past its first step.
CopycatHandled ==
    request.endpoint = "copycat" /\ request.body = "object" /\ pc # "received"

\* A tweet-improvement request whose body is a JSON object, past its first step.
ImproveHandled ==
    request.endpoint = "improve" /\ request.body = "object" /\ pc # "received"

OriginalGiven ==
    request.originalTweet \notin {Absent, ""} \/ request.tweetUrl \notin {Absent, ""}

SuspectErrors ==
    {"At least one suspect handle is required for targeted search",
     "Maximum 5 suspects allowed"}

\* C12: a targeted search (searchMode is not open) whose suspects are
\* missing, not an array or an empty array is answered 400, and so is one
\* with more than 5 suspects, with no backend call; the error names the
\* suspects when the original tweet is given.  With 1 to 5 suspects, and in
\* open mode whatever suspects holds, no suspect error is returned.
C12_SuspectCount ==
    CopycatHandled =>
        LET suspects == request.suspects
            n == Len(suspects.items)
            targeted == request.searchMode # "open"
        IN  /\ (targeted /\ (suspects.kind # "array" \/ n = 0)) =>
                  /\ response.status = 400
                  /\ attempts = << >>
                  /\ OriginalGiven =>
                        response.error =
                            "At least one suspect handle is required for targeted search"
            /\ (targeted /\ suspects.kind = "array" /\ n > 5) =>
                  /\ response.status = 400
                  /\ attempts = << >>
                  /\ OriginalGiven => response.error = "Maximum 5 suspects allowed"
            /\ (targeted /\ suspects.kind = "array" /\ n >= 1 /\ n <= 5) =>
                  response.error \notin SuspectErrors
            /\ ~targeted => response.error \notin SuspectErrors

\* C12 witness: a targeted search with exactly 5 suspects was answered 200.
C12_Witness ==
    /\ CopycatHandled
    /\ request.searchMode = Absent
    /\ Len(request.suspects.items) = 5
    /\ response.status = 200

\* C13: a copy-search request with neither the original tweet text nor the
\* tweet URL (absent or empty) is answered 400 in both search modes and no
\* backend call is made; with one of them given this error is not returned.
C13_OriginalRequired ==
    CopycatHandled =>
        /\ ~OriginalGiven =>
              /\ pc = "done"
              /\ response.status = 400
              /\ response.error = "Either original tweet text or tweet URL is required"
              /\ attempts = << >>
        /\ OriginalGiven =>
              response.error # "Either original tweet text or tweet URL is required"

\* C13 witness: an open search with an empty text and no URL was answered 400.
C13_Witness ==
    /\ CopycatHandled
    /\ request.searchMode = "open"
    /\ request.originalTweet = ""
    /\ request.tweetUrl = Absent
    /\ response.status = 400

\* C17: a tweet-improvement request whose text is missing, empty or not a
\* string is answered 400 at once: no backend attempt, no history record,
\* also when the server key is missing.
C17_TextValidation ==
    (ImproveHandled /\ (request.text.kind # "string" \/ request.text.len = 0)) =>
        /\ pc = "done"
        /\ response.status = 400
        /\ response.error = "Text is required"
        /\ attempts = << >>
        /\ insertCalls = 0
        /\ store = << >>

\* C17 witness: an empty text with no server key configured was answered 400.
C17_Witness ==
    /\ ImproveHandled
    /\ request.text = Text("string", 0)
    /\ ~env.OPENROUTER_API_KEY
    /\ response.status = 400

\* The request passes the validation of its handler.
PassesValidation ==
    \/ /\ ImproveHandled
       /\ request.text.kind = "string"
       /\ request.text.len > 0
    \/ /\ CopycatHandled
       /\ OriginalGiven
       /\ \/ request.searchMode = "open"
          \/ /\ request.suspects.kind = "array"
             /\ Len(request.suspects.items) \in 1..5

\* C18: without OPENROUTER_API_KEY every request that passes validation is
\* answered 500 with the configuration error of its handler and no backend
\* call is made, the primary backend included when its key is set.
C18_KeyRequired ==
    (PassesValidation /\ ~env.OPENROUTER_API_KEY) =>
        /\ pc = "done"
        /\ response.status = 500
        /\ response.error =
              IF request.endpoint = "improve"
              THEN "OPENROUTER_API_KEY not configured. Please add it to .env.local"
              ELSE "OPENROUTER_API_KEY not configured"
        /\ attempts = << >>

\* C18 witness: with the primary key set and the server key missing, a
\* tweet-improvement request was answered 500.
C18_Witness ==
    /\ ImproveHandled
    /\ env.GEMINI_API_KEY
    /\ ~env.OPENROUTER_API_KEY
    /\ request.text.len > 0
    /\ response.status = 500

(***************************************************************************)
(* Properties of the copy-search prompt and response                       *)
(***************************************************************************)
\* The prompt of a targeted search has been built.
TargetedPrompt ==
    CopycatHandled /\ request.searchMode # "open" /\ prompt # NoPrompt

\* C14: the prompt of a targeted search that passed validation lists at
\* least one and at most five suspects.
C14_SuspectsListed ==
    TargetedPrompt => (Len(prompt.suspects) >= 1 /\ Len(prompt.suspects) <= 5)

\* A handle without the "@" and whitespace in front of its name and without
\* the whitespace after it.
BareHandle(s) ==
    LET r == Drop(s, LeadRun(s, WhiteSpace \cup {"@"}))
    IN  Take(r, Len(r) - TrailRun(r, WhiteSpace))

\* C15: the suspects listed in the prompt of a targeted search are the
\* submitted handles in their order (the i-th listed is numbered i), each
\* without leading "@", without leading or trailing whitespace, and the
\* empty ones left out.
C15_SuspectList ==
    TargetedPrompt =>
        /\ prompt.suspects =
              SelectSeq([i \in 1..Len(request.suspects.items) |->
                            BareHandle(request.suspects.items[i])],
                        LAMBDA h : h # << >>)
        /\ \A i \in 1..Len(prompt.suspects) :
              /\ prompt.suspects[i] # << >>
              /\ prompt.suspects[i][1] \notin WhiteSpace \cup {"@"}
              /\ prompt.suspects[i][Len(prompt.suspects[i])] \notin WhiteSpace

\* C16: every 200 response of the copy-search handler has success true and
\* the searchMode the request was handled in, whatever the model's JSON holds.
C16_SearchModeEchoed ==
    (CopycatHandled /\ pc = "done" /\ response.status = 200) =>
        /\ response.success
        /\ response.searchMode = IF request.searchMode = "open" THEN "open" ELSE "targeted"

(***************************************************************************)
(* Properties of the error classes                                         *)
(***************************************************************************)
\* The required input of the request is missing or malformed.
MalformedInput ==
    \/ request.body # "object"
    \/ request.endpoint = "improve" /\ request.text.kind # "string"
    \/ /\ request.endpoint = "copycat"
       /\ request.searchMode # "open"
       /\ \/ request.suspects.kind # "array"
          \/ \E i \in 1..Len(request.suspects.items) :
                request.suspects.items[i] = NonString

\* C19: a request whose required input is missing or malformed (a body that
\* is not a JSON object, a text that is not a string, suspects that are not
\* an array of strings) is answered 400, never 500; stated for a server whose
\* key is configured, so that no 500 is the configuration error.
C19_MalformedIs400 ==
    (/\ pc = "done"
     /\ request.endpoint # "none"
     /\ env.OPENROUTER_API_KEY
     /\ MalformedInput) =>
        response.status = 400

\* C20: when every backend attempt made for a request failed, by an
\* exception or by empty content, the response is 503, on both endpoints.
C20_TotalFailureIs503 ==
    (/\ pc = "done"
     /\ attempts # << >>
     /\ \A i \in 1..Len(attempts) : EndedEmpty(attempts[i])) =>
        response.status = 503

(***************************************************************************)
(* Properties of the history record and of the parse fallback              *)
(***************************************************************************)
\* C23: a history record written by the handler agrees with the way its
\* request was processed: the stored mode is the mode the template was
\* selected under (thread gives the thread template, single the single one,
\* auto the thread template exactly when the text is longer than 500), and
\* the stored isThread is the isThread of the response and tells whether the
\* thread template was selected.
C23_RecordMatchesProcessing ==
    \A i \in 1..Len(store) :
        LET row == store[i]
            threadTemplate == prompt.template = "THREAD_PROMPT"
        IN  /\ row.mode = "thread" => threadTemplate
            /\ row.mode = "single" => ~threadTemplate
            /\ row.mode = "auto" => (threadTemplate <=> row.originalText.len > 500)
            /\ Responded => row.isThread = response.isThread
            /\ row.isThread = threadTemplate

\* C24: the raw-text result with the parse warning is returned only when the
\* cleaned text is not valid JSON.
C24_WarningOnlyForNonJson ==
    (IsImprove /\ Responded /\ response.parseWarning) => ~IsJson(result.cleanedText)

\* C29: splitting the stored improvedText on the separator, as the history
\* page does, gives back the tweets the handler produced, in count and order.
C29_SplitRoundTrip ==
    \A i \in 1..Len(store) : DisplayParts(store[i].improvedText) = result.formattedTweets

(***************************************************************************)
(* Termination                                                             *)
(***************************************************************************)
\* C22: when every backend call and every insert settles, a request received
\* is answered; the answer is given once, with status 200, 400, 500 or 503,
\* and it is the end of the invocation; a copy-search request makes at most
\* one backend call and a tweet-improvement request at most four.
C22_Terminates ==
    /\ (pc = "received") ~> (pc = "done")
    /\ [](Responded <=> pc = "done")
    /\ [](Responded => response.status \in {200, 400, 500, 503})
    /\ [][Responded => (response' = response /\ attempts' = attempts /\ pc' = pc)]_vars
    /\ [](request.endpoint = "copycat" => Len(attempts) <= 1)
    /\ [](request.endpoint = "improve" => Len(attempts) <= 4)

\* C22 witness: a tweet-improvement request was answered after four backend
\* calls and a rejected insert.
C22_Witness ==
    /\ request.endpoint = "improve"
    /\ Len(attempts) = 4
    /\ insert.state = "rejected"
    /\ pc = "done"
    /\ response.status = 200

(***************************************************************************)
(* Fence stripping, as a function of the response text                     *)
(***************************************************************************)
\* Longest run of blanks and newlines put around a fence or a response.
MaxBlank == 1

Blanks == UNION {[1..n -> WhiteSpace] : n \in 0..MaxBlank}

Openers ==
    {Fence, FenceJson, <<"bq", "bq", "bq", "J", "S", "O", "N">>,
     <<"bq", "bq", "bq", "J", "s", "o", "n">>}

Bodies == {<<"docSingle">>, <<"docFindings">>, <<"prose", " ", "prose">>}

\* The three ways a response text reaches the fence stripping: from the
\* primary backend and from a fallback model in the tweet-improvement
\* handler, and in the copy-search handler.
Paths == {"improve/gemini", "improve/openrouter", "copycat"}

Wrap(lead, open, gapOpen, body, gapClose, trail) ==
    lead \o open \o gapOpen \o body \o gapClose \o Fence \o trail

FenceCases ==
    {[path |-> p, body |-> b, wrapped |-> Wrap(lead, open, gapOpen, b, gapClose, trail),
      cleanedBody |-> << >>, cleanedWrapped |-> << >>, state |-> "input"] :
        p \in Paths, b \in Bodies, open \in Openers,
        lead \in Blanks, gapOpen \in Blanks, gapClose \in Blanks, trail \in Blanks}

\* cleanedText of the handler for content that a backend of the path returned
CleanedOn(path, content) ==
    IF path = "improve/gemini" THEN CleanImprove(GeminiText(Reply("ok", content)))
    ELSE IF path = "improve/openrouter"
    THEN CleanImprove(OpenRouterText(Reply("ok", content)))
    ELSE CleanCopycat(OpenRouterText(Reply("ok", content)))

FenceInit ==
    /\ env = [GEMINI_API_KEY |-> TRUE, OPENROUTER_API_KEY |-> TRUE]
    /\ request = NoRequest
    /\ pc = "idle"
    /\ prompt = NoPrompt
    /\ attempts = << >>
    /\ result = NoResult
    /\ insert = NoInsert
    /\ insertCalls = 0
    /\ store = << >>
    /\ response = NoResponse
    /\ history = NoHistory
    /\ fence \in FenceCases
    /\ ui = NoUi
    /\ peer = NoPeer
    /\ form = NoForm

\* The handler cleans the fenced text and the bare body.
FenceClean ==
    /\ fence.state = "input"
    /\ fence' = [fence EXCEPT !.cleanedBody = CleanedOn(fence.path, fence.body),
                              !.cleanedWrapped = CleanedOn(fence.path, fence.wrapped),
                              !.state = "cleaned"]
    /\ UNCHANGED <<env, request, pc, prompt, attempts, result, insert, insertCalls, store,
                   response, history>>
    /\ UNCHANGED <<ui, peer, form>>

FenceSpec == FenceInit /\ [][FenceClean]_vars

\* C5: a response body wrapped in a code fence (json in any letter case or a
\* bare fence, with or without whitespace between fence and body and around
\* the response) is cleaned to the same text as the body alone, in both
\* handlers and for the primary and the fallback backends.
C5_FenceInvisible ==
    fence.state = "cleaned" => fence.cleanedWrapped = fence.cleanedBody

(***************************************************************************)
(* The history store: record, list and delete by several visitors          *)
(***************************************************************************)
\* Number of rows written to the history table in one behaviour.
MaxRecords == 3

HistoryVisitors == {"visitor1", "visitor2"}

\* The values the handler inserts for a visitor: a single tweet or a thread.
HistoryValues(visitorId) ==
    {Row([NoRequest EXCEPT !.endpoint = "improve", !.text = Text("string", ThreadThreshold),
                           !.mode = "auto", !.visitorId = visitorId],
         JsonParse(doc), FormatTweets(doc).formattedTweets) :
        doc \in {<<"docSingle">>, <<"docThread">>}}

\* list(visitorId): the rows of the visitor, newest first.
ListOf(rows, visitorId) ==
    LET mine == SelectSeq(rows, LAMBDA r : r.visitorId = visitorId)
        Newer(r) == Cardinality({j \in 1..Len(mine) : mine[j].createdAt > r.createdAt})
    IN  [i \in 1..Len(mine) |->
            CHOOSE r \in {mine[j] : j \in 1..Len(mine)} : Newer(r) = i - 1]

\* Mutant of DeleteWhere: the owner is not part of the filter.
DeleteWhereIdOnly(rows, id, visitorId) == SelectSeq(rows, LAMBDA r : r.id # id)

\* delete(id, visitorId): the rows left when those matching both the id and
\* the visitorId are removed.
DeleteWhere(rows, id, visitorId) ==
    SelectSeq(rows, LAMBDA r : ~(r.id = id /\ r.visitorId = visitorId))

HistoryInit ==
    /\ env = [GEMINI_API_KEY |-> TRUE, OPENROUTER_API_KEY |-> TRUE]
    /\ request = NoRequest
    /\ pc = "idle"
    /\ prompt = NoPrompt
    /\ attempts = << >>
    /\ result = NoResult
    /\ insert = NoInsert
    /\ insertCalls = 0
    /\ store = << >>
    /\ response = NoResponse
    /\ fence = NoFence
    /\ history = NoHistory
    /\ ui = NoUi
    /\ peer = NoPeer
    /\ form = NoForm

\* The insert of a visitor's generation request resolves.
HistoryRecord ==
    /\ history.nextId <= MaxRecords
    /\ \E visitorId \in HistoryVisitors : \E values \in HistoryValues(visitorId) :
          StoreWrite(values)
    /\ UNCHANGED <<env, request, pc, prompt, attempts, result, insert, insertCalls, response,
                   fence>>
    /\ UNCHANGED <<ui, peer, form>>

\* GET of the history endpoint.
HistoryList ==
    /\ \E visitorId \in HistoryVisitors :
          history' = [history EXCEPT
                         !.call = [kind |-> "list", id |-> 0, visitorId |-> visitorId,
                                   before |-> store],
                         !.reply = [status |-> 200, history |-> ListOf(store, visitorId)]]
    /\ UNCHANGED <<env, request, pc, prompt, attempts, result, insert, insertCalls, store,
                   response, fence>>
    /\ UNCHANGED <<ui, peer, form>>

\* DELETE of the history endpoint, with any id and any visitorId in its body.
HistoryDelete ==
    /\ \E visitorId \in HistoryVisitors : \E id \in 1..(MaxRecords + 1) :
          /\ store' = DeleteWhere(store, id, visitorId)
          /\ history' = [history EXCEPT
                            !.ownerDeletes =
                                IF [id |-> id, owner |-> visitorId] \in history.created
                                THEN @ \cup {id} ELSE @,
                            !.call = [kind |-> "delete", id |-> id, visitorId |-> visitorId,
                                      before |-> store],
                            !.reply = [status |-> 200, history |-> << >>]]
    /\ UNCHANGED <<env, request, pc, prompt, attempts, result, insert, insertCalls, response,
                   fence>>
    /\ UNCHANGED <<ui, peer, form>>

HistoryNext ==
    \/ HistoryRecord
    \/ HistoryList
    \/ HistoryDelete

HistorySpec == HistoryInit /\ [][HistoryNext]_vars

\* The rows of a sequence that carry the id.
RowsWithId(rows, id) == {i \in 1..Len(rows) : rows[i].id = id}

\* C11: a delete issued with the visitorId of a visitor who does not own the
\* record of that id leaves the whole table as it was and is answered
\* without an error; and after any sequence of record, list and delete calls
\* every record ever written is still in the table unless its owner asked for
\* its deletion.
C11_DeleteOnlyByOwner ==
    /\ (/\ history.call.kind = "delete"
        /\ \E i \in RowsWithId(history.call.before, history.call.id) :
               history.call.before[i].visitorId # history.call.visitorId) =>
           (store = history.call.before /\ history.reply.status = 200)
    /\ \A c \in history.created :
          RowsWithId(store, c.id) = {} => c.id \in history.ownerDeletes
    /\ \A i \in 1..Len(store) :
          [id |-> store[i].id, owner |-> store[i].visitorId] \in history.created

\* C11 witness: visitor2 asked for the deletion of a record of visitor1, which
\* is still in the table, after visitor1 had deleted another record of theirs.
C11_Witness ==
    /\ history.call.kind = "delete"
    /\ history.call.visitorId = "visitor2"
    /\ \E i \in RowsWithId(store, history.call.id) : store[i].visitorId = "visitor1"
    /\ history.ownerDeletes # {}
    /\ Len(store) = 2

(***************************************************************************)
(* The history components (HistoryPage, TweetHistory): the list displayed  *)
(* and the requests of fetchHistory and deleteItem in flight               *)
(***************************************************************************)
\* Requests of the component that are in flight at the same time.
MaxRequests == 2

\* The rows of the visitor in the table when the component is mounted.
UiRows ==
    LET values == CHOOSE v \in HistoryValues("visitor1") : ~v.isThread
    IN  <<Stored(values, 1), Stored(values, 2)>>

\* A request of the component.  history: the list of the render whose
\* deleteItem was called (the closure of the handler).  state: "sent", then
\* "answered" with the status and the data of the reply, or "failed" when
\* fetch rejected.
UiRequest(kind, id, list) ==
    [kind |-> kind, id |-> id, history |-> list, state |-> "sent", status |-> 0,
     data |-> << >>]

\* history.filter((h) => h.id !== id)
WithoutItem(list, id) == SelectSeq(list, LAMBDA h : h.id # id)

\* The component is mounted with a visitorId: the effect calls fetchHistory.
UiInit ==
    /\ env = [GEMINI_API_KEY |-> TRUE, OPENROUTER_API_KEY |-> TRUE]
    /\ request = NoRequest
    /\ pc = "idle"
    /\ prompt = NoPrompt
    /\ attempts = << >>
    /\ result = NoResult
    /\ insert = NoInsert
    /\ insertCalls = 0
    /\ store = UiRows
    /\ response = NoResponse
    /\ fence = NoFence
    /\ history = [NoHistory EXCEPT !.nextId = Len(UiRows) + 1]
    /\ ui = [NoUi EXCEPT !.visitorId = "visitor1",
                         !.requests = {UiRequest("fetch", 0, << >>)}]
    /\ peer = NoPeer
    /\ form = NoForm

\* fetchHistory, up to its await (the Refresh button).
UiFetchHistory ==
    /\ Truthy(ui.visitorId)
    /\ Cardinality(ui.requests) < MaxRequests
    /\ ui' = [ui EXCEPT !.requests = @ \cup {UiRequest("fetch", 0, << >>)}]
    /\ UNCHANGED <<handlerVars, env, store, fence, history, peer, form>>

\* deleteItem(id) of an item displayed, up to its await.
UiDeleteItem ==
    /\ Truthy(ui.visitorId)
    /\ Cardinality(ui.requests) < MaxRequests
    /\ \E i \in 1..Len(ui.history) :
          ui' = [ui EXCEPT !.requests =
                              @ \cup {UiRequest("delete", ui.history[i].id, ui.history)}]
    /\ UNCHANGED <<handlerVars, env, store, fence, history, peer, form>>

\* The history endpoint answers a request: the list of the visitor, or the
\* delete done (200), or the delete refused by a failing store (500); or the
\* request does not reach the endpoint and fetch rejects.
UiEndpoint ==
    \E r \in ui.requests :
        /\ r.state = "sent"
        /\ \/ /\ r.kind = "fetch"
              /\ ui' = [ui EXCEPT !.requests = (@ \ {r}) \cup
                           {[r EXCEPT !.state = "answered", !.status = 200,
                                      !.data = ListOf(store, ui.visitorId)]}]
              /\ UNCHANGED store
           \/ /\ r.kind = "delete"
              /\ ui' = [ui EXCEPT !.requests = (@ \ {r}) \cup
                           {[r EXCEPT !.state = "answered", !.status = 200]}]
              /\ store' = DeleteWhere(store, r.id, ui.visitorId)
           \/ /\ r.kind = "delete"
              /\ ui' = [ui EXCEPT !.requests = (@ \ {r}) \cup
                           {[r EXCEPT !.state = "answered", !.status = 500]}]
              /\ UNCHANGED store
           \/ /\ ui' = [ui EXCEPT !.requests = (@ \ {r}) \cup {[r EXCEPT !.state = "failed"]}]
              /\ UNCHANGED store
        /\ UNCHANGED <<handlerVars, env, fence, history, peer, form>>

\* fetchHistory and deleteItem after their await.
UiCompletes ==
    \E r \in ui.requests :
        /\ r.state \in {"answered", "failed"}
        /\ ui' = [ui EXCEPT
                     !.requests = @ \ {r},
                     !.history = IF r.state = "failed" THEN @
                                 ELSE IF r.kind = "fetch" THEN r.data
                                 ELSE WithoutItem(r.history, r.id),
                     !.removed = IF r.kind = "delete" /\ r.state = "answered"
                                    /\ r.status = 200
                                 THEN @ \cup {r.id} ELSE @,
                     !.last = [kind |-> r.kind, id |-> r.id,
                               status |-> IF r.state = "failed" THEN 0 ELSE r.status,
                               shown |-> \E i \in 1..Len(ui.history) :
                                             ui.history[i].id = r.id]]
        /\ UNCHANGED <<handlerVars, env, store, fence, history, peer, form>>

UiNext ==
    \/ UiFetchHistory
    \/ UiDeleteItem
    \/ UiEndpoint
    \/ UiCompletes

UiSpec == UiInit /\ [][UiNext]_vars

\* The ids of the items displayed.
Displayed == {ui.history[i].id : i \in 1..Len(ui.history)}

\* C25: once every request of the component has completed, no item whose
\* delete the endpoint has done is in the list displayed, also when two
\* deletes, or a delete and a refresh, were in flight together.
C25_DeletedStayRemoved ==
    ui.requests = {} => Displayed \cap ui.removed = {}

\* C26: deleteItem takes an item out of the list displayed only if the
\* endpoint did the delete: after a delete answered with another status than
\* 200, or whose record is still in the table, the item is still displayed.
C26_RemovedOnlyWhenDeleted ==
    (/\ ui.last.kind = "delete"
     /\ ui.last.shown
     /\ ui.last.status # 200 \/ RowsWithId(store, ui.last.id) # {}) =>
        ui.last.id \in Displayed

(***************************************************************************)
(* Two invocations of the handlers in flight together: the runtime runs    *)
(* one of them up to its next await, then either of them                   *)
(***************************************************************************)
\* The requests of the clients: tweet improvements of two texts for two
\* visitors or none, and an open copy search.
ConcurrentRequests ==
    {r \in ImproveRequests :
        /\ r.text \in {Text("string", ThreadThreshold), Text("string", ThreadThreshold + 1)}
        /\ r.mode = "auto"
        /\ ~r.addEmojis
        /\ r.visitorId \in {Absent, "visitor1"}}
    \cup {[r EXCEPT !.visitorId = "visitor2"] :
            r \in {q \in ImproveRequests :
                      /\ q.text = Text("string", ThreadThreshold + 1)
                      /\ q.mode = "auto" /\ ~q.addEmojis /\ q.visitorId = "visitor1"}}
    \cup {r \in CopycatRequests :
            /\ r.originalTweet = "tweet" /\ r.tweetUrl = Absent /\ r.originalDate = Absent
            /\ r.suspects = NoSuspects /\ r.searchMode = "open"}

\* What the backends answer while two invocations are in flight.
ConcurrentReplies(backend) ==
    IF backend = GEMINI
    THEN {Reply("throw", << >>), Reply("ok", <<"docSingle">>), Reply("ok", <<"docThread">>)}
    ELSE IF backend = GROK_MODEL
    THEN {Reply("throw", << >>), Reply("ok", << >>), Reply("ok", <<"docFindings">>)}
    ELSE {Reply("ok", << >>), Reply("ok", <<"docSingle">>), Reply("ok", <<"prose", " ", "prose">>)}

\* The invocation the runtime is running.
Invocation ==
    [request |-> request, pc |-> pc, prompt |-> prompt, attempts |-> attempts,
     result |-> result, insert |-> insert, insertCalls |-> insertCalls,
     response |-> response]

ConcurrentInit ==
    /\ Init
    /\ env = [GEMINI_API_KEY |-> TRUE, OPENROUTER_API_KEY |-> TRUE]

\* A client posts a request to a handler.
ConcurrentReceive ==
    /\ pc = "idle"
    /\ request' \in ConcurrentRequests
    /\ pc' = "received"
    /\ UNCHANGED <<fence, history, env, prompt, attempts, result, insert, insertCalls, store, response>>
    /\ UNCHANGED <<ui, peer, form>>

\* A backend answers the outstanding call of the invocation.
ConcurrentBackendSettles ==
    /\ pc \in {"awaitGemini", "awaitOpenRouter", "awaitGrok"}
    /\ Outstanding
    /\ \E reply \in ConcurrentReplies(LastAttempt.backend) :
          attempts' = [attempts EXCEPT ![Len(attempts)].reply = reply]
    /\ UNCHANGED <<fence, history, env, request, pc, prompt, result, insert, insertCalls, store, response>>
    /\ UNCHANGED <<ui, peer, form>>

\* The runtime turns to the other invocation: each has its own locals, the
\* environment and the table are the same for both.
Switch ==
    /\ peer' = Invocation
    /\ request' = peer.request
    /\ pc' = peer.pc
    /\ prompt' = peer.prompt
    /\ attempts' = peer.attempts
    /\ result' = peer.result
    /\ insert' = peer.insert
    /\ insertCalls' = peer.insertCalls
    /\ response' = peer.response
    /\ UNCHANGED <<env, store, fence, history, ui, form>>

ConcurrentNext ==
    \/ ConcurrentReceive
    \/ ConcurrentBackendSettles
    \/ Switch
    \/ ImproveStart
    \/ ImproveAfterGemini
    \/ ImproveAfterOpenRouter
    \/ InsertSettles
    \/ ImproveAfterInsert
    \/ CopycatStart
    \/ CopycatAfterGrok

ConcurrentSpec == ConcurrentInit /\ [][ConcurrentNext]_vars

\* The backend an invocation calls as its i-th.
OwnBackend(req, i) == IF req.endpoint = "copycat" THEN GROK_MODEL ELSE GatewayOrder[i]

\* What the request and the replies to its own calls make of an invocation
\* that has returned: the text of its last call, and the response to it.
OwnText(inv) == AttemptText(inv.attempts[Len(inv.attempts)])

OwnFormat(inv) == FormatTweets(CleanImprove(OwnText(inv)))

OwnResponse(inv) ==
    IF inv.request.endpoint = "improve"
    THEN IF OwnText(inv) = << >> THEN Unavailable
         ELSE IF OwnFormat(inv).threw THEN FallbackResponse(CleanImprove(OwnText(inv)))
         ELSE SuccessResponse(OwnFormat(inv).parsed, OwnFormat(inv).formattedTweets)
    ELSE IF inv.attempts[Len(inv.attempts)].reply.kind = "throw" THEN DetectionFailed
         ELSE IF OwnText(inv) = << >> THEN NoModelResponse
         ELSE IF IsJson(CleanCopycat(OwnText(inv)))
         THEN SearchResponse(inv.request, JsonParse(CleanCopycat(OwnText(inv))))
         ELSE RawSearchResponse(inv.request, CleanCopycat(OwnText(inv)))

\* The visitor and the two texts of the record of an invocation.
OwnRow(inv) ==
    [visitorId |-> inv.request.visitorId, originalText |-> inv.request.text,
     improvedText |-> Join(OwnFormat(inv).formattedTweets, Separator)]

\* The visitor and the two texts of a row.
ValuesOf(row) ==
    [visitorId |-> row.visitorId, originalText |-> row.originalText,
     improvedText |-> row.improvedText]

\* The prompt, the calls and the response of an invocation follow from its
\* own request and the replies to its own calls.
Independent(inv) ==
    /\ inv.prompt = IF inv.attempts = << >> THEN NoPrompt
                    ELSE IF inv.request.endpoint = "improve" THEN ImprovePrompt(inv.request)
                    ELSE CopycatPrompt(inv.request)
    /\ \A i \in 1..Len(inv.attempts) :
          /\ inv.attempts[i].backend = OwnBackend(inv.request, i)
          /\ i < Len(inv.attempts) =>
                /\ inv.attempts[i].reply # Pending
                /\ AttemptText(inv.attempts[i]) = << >>
    /\ inv.response = IF inv.pc = "done" THEN OwnResponse(inv) ELSE NoResponse
    /\ inv.insert.state # "none" => ValuesOf(inv.insert.values) = OwnRow(inv)

Saved(inv) == IF inv.insert.state = "resolved" THEN 1 ELSE 0

\* C21: with two invocations in flight, in any interleaving, the prompt, the
\* backend calls and the response of each follow from its own request and the
\* replies to its own calls, and every row of the table has the visitorId, the
\* original text and the improved text of one invocation whose insert resolved.
C21_Independent ==
    /\ Independent(Invocation)
    /\ Independent(peer)
    /\ Len(store) = Saved(Invocation) + Saved(peer)
    /\ \A i \in 1..Len(store) :
          \E inv \in {Invocation, peer} :
              inv.insert.state = "resolved" /\ ValuesOf(store[i]) = OwnRow(inv)

\* Two improvements of different texts for different visitors, both awaiting
\* their insert at once, both rows written.
C21_Witness ==
    /\ pc = "awaitInsert"
    /\ peer.pc = "awaitInsert"
    /\ Len(store) = 2
    /\ request.visitorId # peer.request.visitorId
    /\ request.text # peer.request.text
    /\ store[1].improvedText # store[2].improvedText
    /\ store[2].visitorId = peer.request.visitorId

(***************************************************************************)
(* The visitorId and the generation                                        *)
(***************************************************************************)
\* Two tweet-improvement requests that differ in nothing but the visitorId.
SameButVisitor(a, b) ==
    /\ a.endpoint = "improve"
    /\ b.endpoint = "improve"
    /\ [a EXCEPT !.visitorId = Absent] = [b EXCEPT !.visitorId = Absent]

\* The backends answered the calls of both the same way.
SameReplies(a, b) ==
    \A i \in 1..Len(a) : i <= Len(b) => a[i].reply = b[i].reply

\* C30: two tweet-improvement requests that differ only in the visitorId
\* (present or absent) and get the same backend replies have, once both have
\* returned, the same prompt, the same backend calls and the same response,
\* whatever became of the insert of either.
C30_VisitorBlind ==
    (/\ SameButVisitor(request, peer.request)
     /\ pc = "done"
     /\ peer.pc = "done"
     /\ SameReplies(attempts, peer.attempts)) =>
        /\ prompt = peer.prompt
        /\ attempts = peer.attempts
        /\ response = peer.response

\* A request with a visitorId whose insert was rejected, beside the same
\* request without one: both answered after the same two calls.
C30_Witness ==
    /\ SameButVisitor(request, peer.request)
    /\ request.visitorId = "visitor1"
    /\ peer.request.visitorId = Absent
    /\ pc = "done"
    /\ peer.pc = "done"
    /\ Len(attempts) = 2
    /\ attempts = peer.attempts
    /\ insert.state = "rejected"
    /\ peer.insert.state = "none"
    /\ response.status = 200

(***************************************************************************)
(* The copy-search page and the tweet-improver component: what they send   *)
(***************************************************************************)
\* What a visitor may have typed into a text field of the copy-search page.
FieldValues == {<< >>, <<" ">>, <<" ", "tweet", " ">>}

\* The five suspect fields.
SuspectFieldValues ==
    {[i \in 1..SuspectFields |-> << >>],
     [i \in 1..SuspectFields |-> IF i = 2 THEN <<" ">> ELSE << >>],
     [i \in 1..SuspectFields |-> IF i = 3 THEN <<"@">> ELSE << >>],
     [i \in 1..SuspectFields |-> IF i = 1 THEN <<" ", "@", "bob", " ">> ELSE
                                 IF i = 4 THEN <<" ">> ELSE << >>],
     [i \in 1..SuspectFields |-> <<"eve">>]}

\* The text of the tweet-improver component.
InputTexts ==
    {[len |-> 0, blank |-> TRUE], [len |-> ThreadThreshold + 1, blank |-> TRUE],
     [len |-> 1, blank |-> FALSE], [len |-> ThreadThreshold, blank |-> FALSE],
     [len |-> ThreadThreshold + 1, blank |-> FALSE]}

CopycatForms ==
    {[NoForm EXCEPT !.page = "copycat", !.searchMode = m, !.originalTweet = t,
                    !.tweetUrl = u, !.originalDate = d, !.suspects = f] :
        m \in {"open", "targeted"}, t \in FieldValues, u \in FieldValues,
        d \in {"", "date"}, f \in SuspectFieldValues}

ImproverForms ==
    {[NoForm EXCEPT !.page = "improver", !.inputText = t, !.addEmojis = e, !.mode = m,
                    !.visitorId = v] :
        t \in InputTexts, e \in BOOLEAN, m \in {"auto", "single", "thread"},
        v \in {Absent, "visitor1"}}

\* A field of one word at most, as the string the body carries.
FieldString(s) == IF s = << >> THEN "" ELSE s[1]

\* value || undefined
OrUndefined(v) == IF Truthy(v) THEN v ELSE Absent

\* Mutant of OriginalEntered: the fields are looked at as typed.
OriginalEnteredUntrimmed(f) == f.originalTweet # << >> \/ f.tweetUrl # << >>

\* originalTweet.trim() || tweetUrl.trim()
OriginalEntered(f) == Trim(f.originalTweet) # << >> \/ Trim(f.tweetUrl) # << >>

\* suspects.filter((s) => s.trim().length > 0)
FilledSuspects(f) == SelectSeq(f.suspects, LAMBDA x : Len(Trim(x)) > 0)

\* The body handleSubmit posts to the copy-search handler.
CopycatBody(f) ==
    [NoRequest EXCEPT
        !.endpoint = "copycat",
        !.originalTweet = OrUndefined(FieldString(Trim(f.originalTweet))),
        !.tweetUrl = OrUndefined(FieldString(Trim(f.tweetUrl))),
        !.originalDate = OrUndefined(f.originalDate),
        !.suspects = IF f.searchMode = "targeted"
                     THEN [kind |-> "array", items |-> FilledSuspects(f)]
                     ELSE NoSuspects,
        !.searchMode = f.searchMode]

\* The body handleImprove posts to the tweet-improvement handler.
ImproveBody(f) ==
    [NoRequest EXCEPT
        !.endpoint = "improve",
        !.text = Text("string", f.inputText.len),
        !.addEmojis = f.addEmojis,
        !.mode = f.mode,
        !.visitorId = f.visitorId]

\* The length above which the hint of mode auto announces a thread.
HintThreshold == 500

\* Mutant of GetModeHint: the length of the threshold itself is a thread.
GetModeHintInclusive(f) ==
    IF f.mode = "single" THEN "Will create a single tweet (no limit)"
    ELSE IF f.mode = "thread" THEN "Will create a thread (multiple tweets)"
    ELSE IF f.inputText.len >= HintThreshold THEN "Will be split into a thread"
    ELSE "Will create a single tweet"

GetModeHint(f) ==
    IF f.mode = "single" THEN "Will create a single tweet (no limit)"
    ELSE IF f.mode = "thread" THEN "Will create a thread (multiple tweets)"
    ELSE IF f.inputText.len > HintThreshold THEN "Will be split into a thread"
    ELSE "Will create a single tweet"

\* The server key is configured.
PageInit ==
    /\ Init
    /\ env.OPENROUTER_API_KEY

\* A visitor fills in one of the two forms.
FillForm ==
    /\ form.page = "none"
    /\ form' \in CopycatForms \cup ImproverForms
    /\ UNCHANGED <<handlerVars, env, store, fence, history, ui, peer>>

\* handleSubmit of the copy-search page, up to its fetch.
HandleSubmit ==
    /\ form.page = "copycat"
    /\ pc = "idle"
    /\ form.error = ""
    /\ IF ~OriginalEntered(form)
       THEN /\ form' = [form EXCEPT !.error = "Please provide either your original tweet text or a tweet URL"]
            /\ UNCHANGED <<request, pc>>
       ELSE IF form.searchMode = "targeted" /\ Len(FilledSuspects(form)) = 0
       THEN /\ form' = [form EXCEPT !.error = "Please enter at least one suspect handle"]
            /\ UNCHANGED <<request, pc>>
       ELSE /\ request' = CopycatBody(form)
            /\ pc' = "received"
            /\ UNCHANGED form
    /\ UNCHANGED <<prompt, attempts, result, insert, insertCalls, response>>
    /\ UNCHANGED <<env, store, fence, history, ui, peer>>

\* handleImprove of the tweet-improver component, up to its fetch.
HandleImprove ==
    /\ form.page = "improver"
    /\ pc = "idle"
    /\ form.error = ""
    /\ IF form.inputText.blank
       THEN /\ form' = [form EXCEPT !.error = "Please enter some text to improve"]
            /\ UNCHANGED <<request, pc>>
       ELSE /\ request' = ImproveBody(form)
            /\ pc' = "received"
            /\ UNCHANGED form
    /\ UNCHANGED <<prompt, attempts, result, insert, insertCalls, response>>
    /\ UNCHANGED <<env, store, fence, history, ui, peer>>

PageNext ==
    \/ FillForm
    \/ HandleSubmit
    \/ HandleImprove
    \/ ImproveStart
    \/ ImproveAfterGemini
    \/ ImproveAfterOpenRouter
    \/ ImproveAfterInsert
    \/ CopycatStart
    \/ CopycatAfterGrok
    \/ BackendSettles
    \/ InsertSettles

PageSpec == PageInit /\ [][PageNext]_vars

\* C27: with the server key configured no request of the copy-search page or
\* of the tweet-improver component is answered 400, whatever the search mode
\* and the contents of the fields.
C27_NeverRejected == form.page # "none" => response.status # 400

\* A targeted search sent with "@" in one suspect field and blanks in the
\* others, the URL field holding a blank: the handler has answered.
C27_Witness ==
    /\ Responded
    /\ form.page = "copycat"
    /\ form.searchMode = "targeted"
    /\ request.suspects.items = <<<<"@">>>>
    /\ form.tweetUrl = <<" ">>
    /\ request.tweetUrl = Absent
    /\ request.originalTweet = "tweet"

\* The hint tells of a thread.
AnnouncesThread(hint) ==
    hint \in {"Will create a thread (multiple tweets)", "Will be split into a thread"}

\* C28: for every text and every mode of the component, the hint announces a
\* thread exactly when the handler takes the thread template for the request
\* the component sends.
C28_HintAgrees ==
    (form.page = "improver" /\ prompt # NoPrompt) =>
        (AnnouncesThread(GetModeHint(form)) <=> prompt.template = "THREAD_PROMPT")

\* Mode auto with a text of the threshold length: a single tweet on both sides.
C28_Witness ==
    /\ form.page = "improver"
    /\ form.mode = "auto"
    /\ form.inputText.len = ThreadThreshold
    /\ prompt.template = "SINGLE_TWEET_PROMPT"
    /\ ~AnnouncesThread(GetModeHint(form))

====
